---- MODULE Spec2Model ----
(***************************************************************************)
(* Model of the word trie of words/word_trie.py (WordTrieNode, WordTrie),  *)
(* of the convenience function words/tools.py:group_names, and of the      *)
(* grouping-task API built on them (api/views.py, api/tasks.py).           *)
(*                                                                         *)
(* A name is a sequence of characters.  A character is a one-element       *)
(* string; in the reference lists taken from the tests a run of letters    *)
(* that holds no delimiter candidate ("adhoc", "foo", "bar.baz") is        *)
(* written as one element, since str.split only looks at the positions of *)
(* the delimiter.  A word is a sequence of characters as well.  A dict is  *)
(* a sequence of entries [key, val] in insertion order.                    *)
(***************************************************************************)
EXTENDS Integers, Sequences, FiniteSets, TLC

VARIABLES
    word_delimiter,   \* WordTrie.word_delimiter
    root,             \* the nodes of the trie: path (sequence of words) -> node
    names,            \* the names inserted into the trie so far, in order
    pc,               \* "trie": building, "grouped": group_names has returned
    grouped_names,    \* the dict returned by the last group_names call
    via,              \* which entry point produced grouped_names
    task,             \* the GroupingTask row: [exists, names, word_delimiter, result, completed, saves]
    response,         \* the last HTTP response: [status, field (of the error), result]
    requests          \* number of move-name requests served

vars == <<word_delimiter, root, names, pc, grouped_names, via, task, response, requests>>

-----------------------------------------------------------------------------
(* Bounds of the model *)

MaxWords == 2

MaxNames == 3

MaxRequests == 2

-----------------------------------------------------------------------------
(* Sequences and dicts *)

Range(s) == {s[i] : i \in DOMAIN s}

\* list.remove(x): removes the first element equal to x (the caller handles
\* the ValueError raised when there is none).
RemoveFirst(s, x) ==
    LET i == CHOOSE k \in DOMAIN s : s[k] = x /\ \A j \in 1..(k - 1) : s[j] # x
    IN  SubSeq(s, 1, i - 1) \o SubSeq(s, i + 1, Len(s))

\* itertools.chain.from_iterable
RECURSIVE Flatten(_)
Flatten(ss) == IF ss = <<>> THEN <<>> ELSE Head(ss) \o Flatten(Tail(ss))

DictKeys(D) == {D[i].key : i \in DOMAIN D}

DictGet(D, k) == D[CHOOSE i \in DOMAIN D : D[i].key = k].val

\* D[k] = v
DictSet(D, k, v) ==
    IF k \in DictKeys(D)
    THEN [i \in DOMAIN D |-> IF D[i].key = k THEN [key |-> k, val |-> v] ELSE D[i]]
    ELSE Append(D, [key |-> k, val |-> v])

\* del D[k]
DictDel(D, k) == SelectSeq(D, LAMBDA e : e.key # k)

\* defaultdict(list): D[k].extend(items); a missing key is created first
DictExtend(D, k, items) ==
    IF k \in DictKeys(D) THEN DictSet(D, k, DictGet(D, k) \o items)
    ELSE DictSet(D, k, items)

\* The mapping a dict stands for (dict equality ignores the order of keys)
AsMap(D) == [k \in DictKeys(D) |-> DictGet(D, k)]

-----------------------------------------------------------------------------
(* Strings *)

DEFAULT_WORD_DELIMITER == "_"

\* str.split(d) for a one-character d
Split(s, d) ==
    LET RECURSIVE scan(_, _, _)
        scan(i, cur, acc) ==
            IF i > Len(s) THEN Append(acc, cur)
            ELSE IF s[i] = d THEN scan(i + 1, <<>>, Append(acc, cur))
            ELSE scan(i + 1, Append(cur, s[i]), acc)
    IN  scan(1, <<>>, <<>>)

\* d.join(words)
RECURSIVE Join(_, _)
Join(ws, d) ==
    IF ws = <<>> THEN <<>>
    ELSE IF Len(ws) = 1 THEN ws[1]
    ELSE ws[1] \o <<d>> \o Join(Tail(ws), d)

-----------------------------------------------------------------------------
(* WordTrieNode *)

WordTrieNode(word, text) ==
    [word |-> word, text |-> text, is_full_name |-> FALSE, children |-> <<>>]

is_root(node) == node.word = <<>>

is_branching_point(node) == Len(node.children) > 1

is_leaf(node) == node.children = <<>>

\* WordTrie.__init__: a root node and nothing else
EmptyTrie == (<<>> :> WordTrieNode(<<>>, <<>>))

-----------------------------------------------------------------------------
(* WordTrie.insert_name *)

\* insert_name that does not look for the node of the last word: when it is
\* there already, the word is entered among the children once more
insert_name_no_reuse(trie, name, d) ==
    LET words == Split(name, d)
        RECURSIVE walk(_, _, _)
        walk(t, path, i) ==
            IF i > Len(words) THEN [t EXCEPT ![path].is_full_name = TRUE]
            ELSE LET word  == words[i]
                     child == Append(path, word)
                 IN  IF word \in Range(t[path].children)
                     THEN walk(IF i = Len(words)
                               THEN [t EXCEPT ![path].children = Append(@, word)]
                               ELSE t,
                               child, i + 1)
                     ELSE walk([t EXCEPT ![path].children = Append(@, word)]
                                  @@ (child :> WordTrieNode(word, Join(SubSeq(words, 1, i), d))),
                               child, i + 1)
    IN  walk(trie, <<>>, 1)

\* insert_name that joins the text of a new node with the default delimiter
\* instead of the configured one
insert_name_default_join(trie, name, d) ==
    LET words == Split(name, d)
        RECURSIVE walk(_, _, _)
        walk(t, path, i) ==
            IF i > Len(words) THEN [t EXCEPT ![path].is_full_name = TRUE]
            ELSE LET word  == words[i]
                     child == Append(path, word)
                 IN  IF word \in Range(t[path].children)
                     THEN walk(t, child, i + 1)
                     ELSE walk([t EXCEPT ![path].children = Append(@, word)]
                                  @@ (child :> WordTrieNode(word,
                                          Join(SubSeq(words, 1, i), DEFAULT_WORD_DELIMITER))),
                               child, i + 1)
    IN  walk(trie, <<>>, 1)

\* insert_name that marks every node on the way as the end of a name
insert_name_mark_path(trie, name, d) ==
    LET words == Split(name, d)
        RECURSIVE walk(_, _, _)
        walk(t, path, i) ==
            IF i > Len(words) THEN t
            ELSE LET word  == words[i]
                     child == Append(path, word)
                     t1    == IF word \in Range(t[path].children) THEN t
                              ELSE [t EXCEPT ![path].children = Append(@, word)]
                                      @@ (child :> WordTrieNode(word,
                                              Join(SubSeq(words, 1, i), d)))
                 IN  walk([t1 EXCEPT ![child].is_full_name = TRUE], child, i + 1)
    IN  walk(trie, <<>>, 1)

insert_name(trie, name, d) ==
    LET words == Split(name, d)
        RECURSIVE walk(_, _, _)
        walk(t, path, i) ==
            IF i > Len(words) THEN [t EXCEPT ![path].is_full_name = TRUE]
            ELSE LET word  == words[i]
                     child == Append(path, word)
                 IN  IF word \in Range(t[path].children)
                     THEN walk(t, child, i + 1)
                     ELSE walk([t EXCEPT ![path].children = Append(@, word)]
                                  @@ (child :> WordTrieNode(word, Join(SubSeq(words, 1, i), d))),
                               child, i + 1)
    IN  walk(trie, <<>>, 1)

\* WordTrie.from_names
from_names(ns, d) ==
    LET RECURSIVE loop(_, _)
        loop(t, i) == IF i > Len(ns) THEN t ELSE loop(insert_name(t, ns[i], d), i + 1)
    IN  loop(EmptyTrie, 1)

-----------------------------------------------------------------------------
(* WordTrie.group_names *)

\* AbsorbBranches that names the group after the deepest full name of the
\* branch instead of the shallowest
AbsorbBranchesDeepest(sub_branches, grouped) ==
    LET RECURSIVE loop(_, _, _)
        loop(i, sub, g) ==
            IF i < 1 \/ i > Len(sub) THEN [sub |-> sub, grouped |-> g]
            ELSE LET branch == sub[i]
                 IN  IF Len(branch) > 1
                     THEN loop(i - 1, RemoveFirst(sub, branch),
                               DictExtend(g, branch[Len(branch)], branch))
                     ELSE loop(i - 1, sub, g)
    IN  loop(Len(sub_branches), sub_branches, grouped)

\* Lines 158-166: the sub-branches are visited through a reversed list
\* iterator (an index running down from the last element, which stops as soon
\* as it passes the end of the list) while processed branches are removed.
AbsorbBranches(sub_branches, grouped) ==
    LET RECURSIVE loop(_, _, _)
        loop(i, sub, g) ==
            IF i < 1 \/ i > Len(sub) THEN [sub |-> sub, grouped |-> g]
            ELSE LET branch == sub[i]
                 IN  IF Len(branch) > 1
                     THEN loop(i - 1, RemoveFirst(sub, branch),
                               DictExtend(g, branch[1], branch))
                     ELSE loop(i - 1, sub, g)
    IN  loop(Len(sub_branches), sub_branches, grouped)

\* Lines 170-179: the root turns every remaining full name into its own group
RootGroups(sub_branches, grouped) ==
    LET rest == Flatten(sub_branches)
        RECURSIVE loop(_, _)
        loop(i, g) ==
            IF i > Len(rest) THEN g
            ELSE loop(i + 1, DictExtend(g, rest[i], <<rest[i]>>))
    IN  loop(1, grouped)

\* SelfGroup that lists the text of the branching point after the names of
\* its sub-branches
SelfGroupTextLast(node, sub_branches, grouped) ==
    LET g1 == DictExtend(grouped, node.text, Flatten(sub_branches))
    IN  IF node.is_full_name
        THEN DictExtend(g1, node.text, <<node.text>>)
        ELSE g1

\* Lines 181-191: the branching point names the group of what remains
SelfGroup(node, sub_branches, grouped) ==
    LET g1 == IF node.is_full_name
              THEN DictExtend(grouped, node.text, <<node.text>>)
              ELSE grouped
    IN  DictExtend(g1, node.text, Flatten(sub_branches))

\* Lines 170-198: what a branching point does with the remaining sub-branches.
\* out is what it appends to the caller's current_branches.
ResolveBranching(node, sub_branches, grouped) ==
    IF is_root(node)
    THEN [out |-> <<>>, grouped |-> RootGroups(sub_branches, grouped)]
    ELSE IF node.is_full_name \/ Len(sub_branches) > 1
    THEN [out |-> <<>>, grouped |-> SelfGroup(node, sub_branches, grouped)]
    ELSE [out |-> sub_branches, grouped |-> grouped]

\* Lines 132-215.  The shared accumulators are returned instead of mutated:
\* out is the list of branches the call appends to current_branches, grouped
\* is grouped_names after the call.
RECURSIVE _group_names(_, _, _, _)
_group_names(trie, path, current_branch, grouped) ==
    LET node == trie[path]
    IN  IF is_branching_point(node)
        THEN LET RECURSIVE each(_, _, _)
                 each(i, sub, g) ==
                     IF i > Len(node.children) THEN [sub |-> sub, grouped |-> g]
                     ELSE LET r == _group_names(trie, Append(path, node.children[i]),
                                                <<>>, g)
                          IN  each(i + 1, sub \o r.out, r.grouped)
                 collected == each(1, <<>>, grouped)
                 absorbed  == AbsorbBranches(collected.sub, collected.grouped)
             IN  ResolveBranching(node, absorbed.sub, absorbed.grouped)
        ELSE LET branch == IF node.is_full_name
                           THEN Append(current_branch, node.text)
                           ELSE current_branch
             IN  IF is_leaf(node)
                 THEN [out |-> <<branch>>, grouped |-> grouped]
                 ELSE _group_names(trie, Append(path, node.children[1]), branch, grouped)

\* group_names that files the branches handed up by the root call under the
\* text of the root
group_names_root_text(trie) ==
    LET r == _group_names(trie, <<>>, <<>>, <<>>)
    IN  DictExtend(r.grouped, trie[<<>>].text, Flatten(r.out))

\* Lines 217-221: the branches handed up by the root call are dropped
group_names(trie) == _group_names(trie, <<>>, <<>>, <<>>).grouped

\* words/tools.py: group_names(names, word_delimiter)
tools_group_names(ns, d) == group_names(from_names(ns, d))

-----------------------------------------------------------------------------
(* Inputs *)

\* The delimiters the trie is configured with
Delims == {"_", "+", "-"}

\* The letters the enumerated names are made of
Letters == {"a", "b"}

\* Every name of one to MaxWords one-letter words joined with "_"
NamePool ==
    UNION {{Join([i \in 1..n |-> <<ws[i]>>], DEFAULT_WORD_DELIMITER) :
               ws \in [1..n -> Letters]} : n \in 1..MaxWords}

\* "adhoc_charge_amt" is U(<<"adhoc", "charge", "amt">>)
U(parts) == Join([i \in DOMAIN parts |-> <<parts[i]>>], "_")

\* words/tests.py: EXAMPLE_NAMES
EXAMPLE_NAMES == <<
    U(<<"adhoc", "charge", "amt">>),
    U(<<"adhoc", "charge", "amt", "usd">>),
    U(<<"alcohol", "direct", "payment", "ind">>),
    U(<<"alcohol", "tax", "amt">>),
    U(<<"alcohol", "tax", "amt", "usd">>),
    U(<<"alcohol", "gmv", "amt">>),
    U(<<"alcohol", "gmv", "amt", "usd">>),
    U(<<"alcohol", "product", "ind">>),
    U(<<"bag", "fee">>),
    U(<<"bag", "fee", "usd">>),
    U(<<"bags", "fee", "tax", "amt">>),
    U(<<"bags", "fee", "tax", "amt", "usd">>),
    U(<<"bags", "in", "freezer">>),
    U(<<"bags", "in", "fridge">>),
    U(<<"bags", "in", "shelves">>),
    U(<<"country", "id">>),
    U(<<"currency">>) >>

\* words/tests.py: EXPECTED_GROUPS
EXPECTED_GROUPS == <<
    [key |-> U(<<"adhoc", "charge", "amt">>),
     val |-> <<U(<<"adhoc", "charge", "amt">>), U(<<"adhoc", "charge", "amt", "usd">>)>>],
    [key |-> U(<<"alcohol">>),
     val |-> <<U(<<"alcohol", "direct", "payment", "ind">>),
               U(<<"alcohol", "product", "ind">>)>>],
    [key |-> U(<<"alcohol", "tax", "amt">>),
     val |-> <<U(<<"alcohol", "tax", "amt">>), U(<<"alcohol", "tax", "amt", "usd">>)>>],
    [key |-> U(<<"alcohol", "gmv", "amt">>),
     val |-> <<U(<<"alcohol", "gmv", "amt">>), U(<<"alcohol", "gmv", "amt", "usd">>)>>],
    [key |-> U(<<"bag", "fee">>),
     val |-> <<U(<<"bag", "fee">>), U(<<"bag", "fee", "usd">>)>>],
    [key |-> U(<<"bags", "fee", "tax", "amt">>),
     val |-> <<U(<<"bags", "fee", "tax", "amt">>),
               U(<<"bags", "fee", "tax", "amt", "usd">>)>>],
    [key |-> U(<<"bags", "in">>),
     val |-> <<U(<<"bags", "in", "freezer">>), U(<<"bags", "in", "fridge">>),
               U(<<"bags", "in", "shelves">>)>>],
    [key |-> U(<<"country", "id">>), val |-> <<U(<<"country", "id">>)>>],
    [key |-> U(<<"currency">>), val |-> <<U(<<"currency">>)>>] >>

\* words/tests.py: test_grouping_names_with_custom_word_delimiter
CUSTOM_NAMES == << <<"foo", "+", "bar", "_", "abc">>, <<"foo", "+", "baz", "_", "xyz">> >>

CUSTOM_GROUPS == << [key |-> <<"foo">>, val |-> CUSTOM_NAMES] >>

\* words/word_trie.py: the example of the WordTrie docstring
DOC_NAMES == << U(<<"foo", "bar">>), U(<<"foo", "bar", "baz">>),
                U(<<"abc", "asd">>), U(<<"abc", "xyz">>) >>

DOC_GROUPS == <<
    [key |-> U(<<"abc">>), val |-> <<U(<<"abc", "asd">>), U(<<"abc", "xyz">>)>>],
    [key |-> U(<<"foo", "bar">>),
     val |-> <<U(<<"foo", "bar">>), U(<<"foo", "bar", "baz">>)>>] >>

\* api/tests.py: the names of test_grouping_tasks_workflow
API_NAMES == << <<"foo">>, <<"foo", "-", "bar">>, <<"foo", "-", "baz">>, <<"xyz">> >>

API_GROUPS == <<
    [key |-> <<"foo">>,
     val |-> << <<"foo">>, <<"foo", "-", "bar">>, <<"foo", "-", "baz">> >>],
    [key |-> <<"xyz">>, val |-> << <<"xyz">> >>] >>

API_GROUPS_MOVED == <<
    [key |-> <<"foo">>,
     val |-> << <<"foo">>, <<"foo", "-", "bar">>, <<"foo", "-", "baz">>, <<"xyz">> >>] >>

\* The contiguous slices of a list, the empty one included
Slices(list) ==
    {SubSeq(list, i, j) : i \in 1..(Len(list) + 1), j \in 0..Len(list)}

\* The name lists handed to WordTrie.from_names in one call
RefLists == {<<>>, EXAMPLE_NAMES, CUSTOM_NAMES, DOC_NAMES, API_NAMES}

\* The name lists handed to tools.group_names
ToolsLists ==
    Slices(EXAMPLE_NAMES) \cup Slices(CUSTOM_NAMES) \cup Slices(DOC_NAMES)
        \cup Slices(API_NAMES)

-----------------------------------------------------------------------------
(* The grouping-task row before any request *)

NoTask == [exists |-> FALSE, names |-> <<>>, word_delimiter |-> DEFAULT_WORD_DELIMITER,
           result |-> <<>>, completed |-> FALSE, saves |-> 0]

NoResponse == [status |-> 0, field |-> "", result |-> <<>>]

-----------------------------------------------------------------------------
(* The library: a client of WordTrie and of tools.group_names *)

\* WordTrie(word_delimiter=d)
Init ==
    /\ word_delimiter \in Delims
    /\ root = EmptyTrie
    /\ names = <<>>
    /\ pc = "trie"
    /\ grouped_names = <<>>
    /\ via = "none"
    /\ task = NoTask
    /\ response = NoResponse
    /\ requests = 0

\* trie.insert_name(name)
InsertName(name) ==
    /\ Len(names) < MaxNames
    /\ via \in {"none", "method"}
    /\ root' = insert_name(root, name, word_delimiter)
    /\ names' = Append(names, name)
    /\ pc' = "trie"
    /\ grouped_names' = <<>>
    /\ via' = "none"
    /\ UNCHANGED <<word_delimiter, task, response, requests>>

\* WordTrie.from_names(names=ns, word_delimiter=d)
FromNames(ns, d) ==
    /\ names = <<>> /\ pc = "trie"
    /\ word_delimiter' = d
    /\ root' = from_names(ns, d)
    /\ names' = ns
    /\ UNCHANGED <<pc, grouped_names, via, task, response, requests>>

\* trie.group_names()
GroupNames ==
    /\ pc = "trie"
    /\ grouped_names' = group_names(root)
    /\ pc' = "grouped"
    /\ via' = "method"
    /\ UNCHANGED <<word_delimiter, root, names, task, response, requests>>

\* tools.group_names(names=ns, word_delimiter=d)
ToolsGroupNames(ns, d) ==
    /\ names = <<>> /\ pc = "trie"
    /\ word_delimiter' = d
    /\ root' = from_names(ns, d)
    /\ names' = ns
    /\ grouped_names' = tools_group_names(ns, d)
    /\ pc' = "grouped"
    /\ via' = "tools"
    /\ UNCHANGED <<task, response, requests>>

Next ==
    \/ \E name \in NamePool : InsertName(name)
    \/ \E ns \in RefLists, d \in Delims : FromNames(ns, d)
    \/ GroupNames
    \/ \E ns \in ToolsLists, d \in Delims : ToolsGroupNames(ns, d)

Spec == Init /\ [][Next]_vars

-----------------------------------------------------------------------------
(* The library with names of any form: insert_name takes every string *)

\* Names with a leading, a trailing and a doubled delimiter
EmptyWordNames ==
    { <<DEFAULT_WORD_DELIMITER, "a">>,
      <<"a", DEFAULT_WORD_DELIMITER>>,
      <<"a", DEFAULT_WORD_DELIMITER, DEFAULT_WORD_DELIMITER, "a">>,
      <<"a", DEFAULT_WORD_DELIMITER, DEFAULT_WORD_DELIMITER, "b">> }

AnyPool == NamePool \cup EmptyWordNames

\* WordTrie()
InitAny ==
    /\ word_delimiter = DEFAULT_WORD_DELIMITER
    /\ root = EmptyTrie
    /\ names = <<>>
    /\ pc = "trie"
    /\ grouped_names = <<>>
    /\ via = "none"
    /\ task = NoTask
    /\ response = NoResponse
    /\ requests = 0

NextAny ==
    \/ \E name \in AnyPool : InsertName(name)
    \/ GroupNames
    \/ \E ns \in ToolsLists : ToolsGroupNames(ns, DEFAULT_WORD_DELIMITER)

SpecAny == InitAny /\ [][NextAny]_vars

-----------------------------------------------------------------------------
(* The grouping-task API: api/serializers.py, api/tasks.py, api/views.py *)

HTTP_200_OK == 200

HTTP_201_CREATED == 201

HTTP_400_BAD_REQUEST == 400

HTTP_404_NOT_FOUND == 404

\* A word_delimiter the request leaves out
Absent == "absent"

\* GroupingTaskInputDataSerializer: names is a non-empty list of non-blank
\* strings, word_delimiter is one character and defaults to "_"
InputDataValid(ns, d) ==
    /\ ns # <<>>
    /\ \A i \in DOMAIN ns : ns[i] # <<>>
    /\ d \in Delims \cup {Absent}

ValidatedDelimiter(d) == IF d = Absent THEN DEFAULT_WORD_DELIMITER ELSE d

\* process_grouping_task_async: only a task that has no result and is not
\* completed is processed; the result of group_names is stored and saved
process_grouping_task_async(t) ==
    IF ~(t.exists /\ t.result = <<>> /\ ~t.completed) THEN t
    ELSE [t EXCEPT !.result = tools_group_names(t.names, t.word_delimiter),
                   !.completed = TRUE,
                   !.saves = @ + 1]

\* move_name that keeps the source group when it became empty
move_name_keep_orphan(R, name, source_group_name, target_group_name) ==
    IF source_group_name \notin DictKeys(R)
    THEN [status |-> HTTP_400_BAD_REQUEST, field |-> "source_group", result |-> R]
    ELSE IF name \notin Range(DictGet(R, source_group_name))
    THEN [status |-> HTTP_400_BAD_REQUEST, field |-> "name", result |-> R]
    ELSE LET source_group == RemoveFirst(DictGet(R, source_group_name), name)
             R1 == DictSet(R, source_group_name, source_group)
             R3 == IF target_group_name \notin DictKeys(R1)
                   THEN DictSet(R1, target_group_name, <<>>)
                   ELSE R1
         IN  [status |-> HTTP_200_OK, field |-> "",
              result |-> DictSet(R3, target_group_name,
                                 Append(DictGet(R3, target_group_name), name))]

\* move_name that goes on when the name is not in the source group
move_name_swallow(R, name, source_group_name, target_group_name) ==
    IF source_group_name \notin DictKeys(R)
    THEN [status |-> HTTP_400_BAD_REQUEST, field |-> "source_group", result |-> R]
    ELSE LET members == DictGet(R, source_group_name)
             source_group == IF name \in Range(members)
                             THEN RemoveFirst(members, name) ELSE members
             R1 == DictSet(R, source_group_name, source_group)
             R2 == IF source_group = <<>> THEN DictDel(R1, source_group_name) ELSE R1
             R3 == IF target_group_name \notin DictKeys(R2)
                   THEN DictSet(R2, target_group_name, <<>>)
                   ELSE R2
         IN  [status |-> HTTP_200_OK, field |-> "",
              result |-> DictSet(R3, target_group_name,
                                 Append(DictGet(R3, target_group_name), name))]

\* GroupingTaskViewSet.move_name, lines 85-107, on the result dict R:
\* the status of the response and the dict as the handler leaves it
move_name(R, name, source_group_name, target_group_name) ==
    IF source_group_name \notin DictKeys(R)
    THEN [status |-> HTTP_400_BAD_REQUEST, field |-> "source_group", result |-> R]
    ELSE IF name \notin Range(DictGet(R, source_group_name))
    THEN [status |-> HTTP_400_BAD_REQUEST, field |-> "name", result |-> R]
    ELSE LET source_group == RemoveFirst(DictGet(R, source_group_name), name)
             R1 == DictSet(R, source_group_name, source_group)
             R2 == IF source_group = <<>> THEN DictDel(R1, source_group_name) ELSE R1
             R3 == IF target_group_name \notin DictKeys(R2)
                   THEN DictSet(R2, target_group_name, <<>>)
                   ELSE R2
         IN  [status |-> HTTP_200_OK, field |-> "",
              result |-> DictSet(R3, target_group_name,
                                 Append(DictGet(R3, target_group_name), name))]

\* The name lists posted to the API
ApiLists == {<<>>, API_NAMES, DOC_NAMES, SubSeq(API_NAMES, 1, 1), SubSeq(API_NAMES, 3, 4)}

\* A non-blank string that is neither a name nor a group of any posted list
NewGroup == <<"new">>

InitApi ==
    /\ word_delimiter = DEFAULT_WORD_DELIMITER
    /\ root = EmptyTrie
    /\ names = <<>>
    /\ pc = "trie"
    /\ grouped_names = <<>>
    /\ via = "none"
    /\ task = NoTask
    /\ response = NoResponse
    /\ requests = 0

\* POST /api/grouping-tasks/ with input_data {names: ns, word_delimiter: d}:
\* CreateModelMixin.create, perform_create and the processing it schedules
CreateTask(ns, d) ==
    /\ ~task.exists
    /\ IF InputDataValid(ns, d)
       THEN /\ task' = process_grouping_task_async(
                           [exists |-> TRUE, names |-> ns,
                            word_delimiter |-> ValidatedDelimiter(d),
                            result |-> <<>>, completed |-> FALSE, saves |-> 1])
            /\ response' = [status |-> HTTP_201_CREATED, field |-> "", result |-> <<>>]
       ELSE /\ task' = task
            /\ response' = [status |-> HTTP_400_BAD_REQUEST, field |-> "input_data", result |-> <<>>]
    /\ UNCHANGED <<word_delimiter, root, names, pc, grouped_names, via, requests>>

\* PATCH /api/grouping-tasks/<pk>/move-name/ with {name, source_group, target_group}
MoveName(name, source_group_name, target_group_name) ==
    /\ requests < MaxRequests
    /\ requests' = requests + 1
    /\ IF ~task.exists
       THEN /\ response' = [status |-> HTTP_404_NOT_FOUND, field |-> "", result |-> <<>>]
            /\ task' = task
       ELSE LET r == move_name(task.result, name, source_group_name, target_group_name)
            IN  IF r.status = HTTP_200_OK
                THEN /\ task' = [task EXCEPT !.result = r.result, !.saves = @ + 1]
                     /\ response' = [status |-> HTTP_200_OK, field |-> "", result |-> r.result]
                ELSE /\ task' = task
                     /\ response' = [status |-> r.status, field |-> r.field, result |-> <<>>]
    /\ UNCHANGED <<word_delimiter, root, names, pc, grouped_names, via>>

\* What a move-name request may name: the names and groups of the task and NewGroup
MoveArgs == Range(task.names) \cup DictKeys(task.result) \cup {NewGroup}

NextApi ==
    \/ \E ns \in ApiLists, d \in Delims \cup {Absent} : CreateTask(ns, d)
    \/ \E name \in MoveArgs, s \in MoveArgs, t \in MoveArgs : MoveName(name, s, t)

SpecApi == InitApi /\ [][NextApi]_vars

-----------------------------------------------------------------------------
(* Vocabulary of the properties *)

\* group_names has returned for the names inserted so far
Grouped == pc = "grouped"

\* How often x occurs in the list s
Count(s, x) == Cardinality({i \in DOMAIN s : s[i] = x})

\* The member lists of all groups, one after the other
AllMembers(D) == Flatten([i \in DOMAIN D |-> D[i].val])

\* The groups (positions in the dict) that list x as a member
GroupsOf(D, x) == {i \in DOMAIN D : x \in Range(D[i].val)}

\* The list without the later repeats of a name
Dedupe(s) ==
    LET RECURSIVE loop(_, _)
        loop(i, acc) ==
            IF i > Len(s) THEN acc
            ELSE loop(i + 1, IF s[i] \in Range(acc) THEN acc ELSE Append(acc, s[i]))
    IN  loop(1, <<>>)

\* The first word of a name under the configured delimiter
FirstWord(name) == Split(name, word_delimiter)[1]

-----------------------------------------------------------------------------
(* C1 *)

\* C1 (as claimed): once a non-empty list of names has been grouped, every
\* input name is a member of exactly one group.
C1_Coverage ==
    (Grouped /\ names # <<>>) =>
        \A i \in DOMAIN names : Cardinality(GroupsOf(grouped_names, names[i])) = 1

-----------------------------------------------------------------------------
(* C2 *)

-----------------------------------------------------------------------------
(* C3 *)

\* C3 (as claimed): a name whose first word is the first word of no other
\* input name is the only member of a group named after it.
C3_SingletonFallback ==
    Grouped =>
        \A i \in DOMAIN names :
            (\A j \in DOMAIN names \ {i} : FirstWord(names[j]) # FirstWord(names[i]))
                => /\ names[i] \in DictKeys(grouped_names)
                   /\ DictGet(grouped_names, names[i]) = <<names[i]>>

-----------------------------------------------------------------------------
(* C4 *)

\* The nodes a non-branching chain starts at: the root, and every child of a
\* branching point, when not a branching point itself
ChainStarts ==
    {p \in DOMAIN root :
        /\ ~is_branching_point(root[p])
        /\ p = <<>> \/ is_branching_point(root[SubSeq(p, 1, Len(p) - 1)])}

\* The full names of the non-branching chain that starts at p, shallowest first
RECURSIVE ChainNames(_)
ChainNames(p) ==
    IF is_branching_point(root[p]) THEN <<>>
    ELSE (IF root[p].is_full_name THEN <<root[p].text>> ELSE <<>>)
             \o (IF is_leaf(root[p]) THEN <<>>
                 ELSE ChainNames(Append(p, root[p].children[1])))

\* C4 (as claimed): a non-branching chain with more than one full name makes
\* a group named by its shallowest full name that lists all its full names,
\* shallowest first.
C4_ShallowestAnchor ==
    Grouped =>
        \A p \in ChainStarts :
            Len(ChainNames(p)) > 1 =>
                /\ ChainNames(p)[1] \in DictKeys(grouped_names)
                /\ DictGet(grouped_names, ChainNames(p)[1]) = ChainNames(p)

-----------------------------------------------------------------------------
(* C5 *)

\* C5 (as claimed): the member list of any group, grouped on its own with
\* the same delimiter, gives that one group again.
C5_IdempotentRegrouping ==
    Grouped =>
        \A k \in DOMAIN grouped_names :
            AsMap(tools_group_names(grouped_names[k].val, word_delimiter))
                = (grouped_names[k].key :> grouped_names[k].val)

-----------------------------------------------------------------------------
(* C6 *)

\* C6: the 17 reference names, grouped with the default delimiter by the
\* method of a trie built by from_names or by the convenience function, give
\* exactly the 9 reference groups with the listed members in the listed order.
C6_ReferenceResult ==
    (Grouped /\ names = EXAMPLE_NAMES /\ word_delimiter = DEFAULT_WORD_DELIMITER) =>
        /\ AsMap(grouped_names) = AsMap(EXPECTED_GROUPS)
        /\ Len(grouped_names) = Len(EXPECTED_GROUPS)
        /\ root = from_names(EXAMPLE_NAMES, DEFAULT_WORD_DELIMITER)

\* The convenience function has grouped the reference names
C6_Witness ==
    /\ Grouped /\ via = "tools"
    /\ names = EXAMPLE_NAMES /\ word_delimiter = DEFAULT_WORD_DELIMITER
    /\ Cardinality(DictKeys(grouped_names)) = 9

-----------------------------------------------------------------------------
(* C7 *)

\* What a successful move of n from group s to group t makes of R
MoveEffect(R, R2, n, s, t) ==
    LET source == RemoveFirst(DictGet(R, s), n)
    IN  /\ \A g \in (DictKeys(R) \cup DictKeys(R2)) \ {s, t} :
               /\ g \in DictKeys(R) /\ g \in DictKeys(R2)
               /\ DictGet(R2, g) = DictGet(R, g)
        /\ t \in DictKeys(R2)
        /\ DictGet(R2, t)[Len(DictGet(R2, t))] = n
        /\ s # t =>
               /\ s \in DictKeys(R2) <=> source # <<>>
               /\ s \in DictKeys(R2) => DictGet(R2, s) = source
               /\ DictGet(R2, t)
                      = (IF t \in DictKeys(R) THEN DictGet(R, t) ELSE <<>>) \o <<n>>
        /\ s = t => DictGet(R2, t) = source \o <<n>>

C7_Step ==
    LET args == MoveArgs
        R    == task.result
        keys == DictKeys(R)
    IN  /\ \A s \in args \cap keys : \A n \in args \cap Range(DictGet(R, s)) :
               \A t \in args :
                   (task.exists /\ MoveName(n, s, t))
                       => /\ response'.status = HTTP_200_OK
                          /\ response'.result = task'.result
                          /\ MoveEffect(R, task'.result, n, s, t)
        /\ (AsMap(R) = AsMap(API_GROUPS)
                /\ MoveName(<<"xyz">>, <<"xyz">>, <<"foo">>))
               => AsMap(task'.result) = AsMap(API_GROUPS_MOVED)

\* C7: a move-name request whose source group exists and lists the name
\* removes the first occurrence of the name from the source group, deletes
\* the source group iff it became empty, creates the target group if absent,
\* makes the name the last member of the target group and leaves every other
\* group as it was; the move of xyz from xyz to foo of the API test gives
\* {foo: [foo, foo-bar, foo-baz, xyz]}.
C7_MoveSuccess == [][C7_Step]_vars

\* The move of the API test has been served
C7_Witness ==
    /\ response.status = HTTP_200_OK
    /\ requests = 1
    /\ task.names = API_NAMES
    /\ AsMap(task.result) = AsMap(API_GROUPS_MOVED)

-----------------------------------------------------------------------------
(* C8 *)

C8_Step ==
    LET args == MoveArgs
        R    == task.result
        keys == DictKeys(R)
    IN  \A s \in args, n \in args :
            (s \notin keys \/ n \notin Range(DictGet(R, s))) =>
                \A t \in args :
                       \/ /\ response'.status = HTTP_400_BAD_REQUEST
                          /\ response'.field = (IF s \notin keys
                                                THEN "source_group" ELSE "name")
                          /\ task' = task
                          /\ move_name(R, n, s, t).result = R
                       \/ ~(task.exists /\ MoveName(n, s, t))

\* C8: a move-name request whose source group does not exist, or does not
\* list the name, is answered 400 and leaves the stored task as it was:
\* same result, no further save.
C8_MoveFailure == [][C8_Step]_vars

\* A request naming a name its source group does not list was refused
\* after a move had succeeded
C8_Witness ==
    /\ task.exists /\ task.result # <<>>
    /\ response.status = HTTP_400_BAD_REQUEST
    /\ response.field = "name"
    /\ requests = 2
    /\ task.saves = 3

-----------------------------------------------------------------------------
(* C9 *)

\* C9: names are split at the configured delimiter and nowhere else, and
\* texts are joined with it again.  No word of the trie holds the delimiter,
\* the text of a node is its words joined with the delimiter, a name with k
\* delimiters is the full name at depth k + 1 whose text is the name itself,
\* every group key is the text of a node, and the two names of the
\* custom-delimiter test are grouped with "+" into the one group foo.
C9_DelimiterSensitivity ==
    /\ \A p \in DOMAIN root \ {<<>>} :
           /\ \A i \in DOMAIN p : word_delimiter \notin Range(p[i])
           /\ root[p].word = p[Len(p)]
           /\ root[p].text = Join(p, word_delimiter)
    /\ \A i \in DOMAIN names :
           LET p == Split(names[i], word_delimiter)
           IN  /\ Len(p) = Count(names[i], word_delimiter) + 1
               /\ p \in DOMAIN root
               /\ root[p].is_full_name
               /\ root[p].text = names[i]
    /\ Grouped =>
           \A k \in DictKeys(grouped_names) :
               \E p \in DOMAIN root \ {<<>>} : k = Join(p, word_delimiter)
    /\ (Grouped /\ names = CUSTOM_NAMES /\ word_delimiter = "+") =>
           AsMap(grouped_names) = AsMap(CUSTOM_GROUPS)

\* The names of the custom-delimiter test have been grouped with "+": the
\* words bar_abc and baz_xyz hold the default delimiter
C9_Witness ==
    /\ Grouped /\ names = CUSTOM_NAMES /\ word_delimiter = "+"
    /\ << <<"foo">>, <<"bar", "_", "abc">> >> \in DOMAIN root
    /\ grouped_names # <<>>

-----------------------------------------------------------------------------
(* C10 *)

\* C10: the trie of an empty list of names is a root without children, and
\* its grouping is the empty mapping.
C10_EmptyInput ==
    /\ names = <<>> => DOMAIN root = {<<>>} /\ is_leaf(root[<<>>])
    /\ (Grouped /\ names = <<>>) => grouped_names = <<>>

\* group_names has returned for a trie without names
C10_Witness == Grouped /\ names = <<>> /\ via = "method" /\ root = from_names(<<>>, word_delimiter)

-----------------------------------------------------------------------------
(* C11 *)

\* The words of a name under the configured delimiter
Words(name) == Split(name, word_delimiter)

\* The non-empty leading word sequences of the inserted names
NamePrefixes ==
    UNION {{SubSeq(Words(names[i]), 1, k) : k \in 1..Len(Words(names[i]))} :
               i \in DOMAIN names}

\* The words that follow the path p in some node of the trie
NextWords(p) ==
    {q[Len(q)] : q \in {r \in DOMAIN root :
                            Len(r) = Len(p) + 1 /\ SubSeq(r, 1, Len(p)) = p}}

\* C11: after any sequence of insertions, the nodes below the root are
\* exactly the leading word sequences of the inserted names, a node is a full
\* name iff an inserted name is exactly its word sequence, every node lists
\* each of its children once, and inserting an inserted name again leaves
\* the trie as it is.
C11_TrieShape ==
    /\ <<>> \in DOMAIN root
    /\ DOMAIN root \ {<<>>} = NamePrefixes
    /\ \A p \in DOMAIN root :
           /\ root[p].is_full_name <=> \E i \in DOMAIN names : Words(names[i]) = p
           /\ Range(root[p].children) = NextWords(p)
           /\ Len(root[p].children) = Cardinality(NextWords(p))
    /\ \A i \in DOMAIN names : insert_name(root, names[i], word_delimiter) = root

\* A name of two words was inserted twice, and a name that goes on from
\* its first word as well
C11_Witness ==
    \E i, j, k \in DOMAIN names :
        /\ i < j /\ names[i] = names[j]
        /\ Len(Words(names[i])) = 2
        /\ Words(names[k])[1] = Words(names[i])[1]
        /\ names[k] # names[i]

-----------------------------------------------------------------------------
(* C12 *)

\* C12: after any sequence of insertions of arbitrary strings, exactly one
\* node of the trie satisfies is_root, and it is the node the trie was
\* constructed with (the empty path); no inserted node counts as the root.
C12_SingleRoot ==
    \A p \in DOMAIN root : is_root(root[p]) <=> p = <<>>

-----------------------------------------------------------------------------
(* C13 *)

\* The word sequence p starts the word sequence q
IsWordPrefix(p, q) == Len(p) <= Len(q) /\ SubSeq(q, 1, Len(p)) = p

\* The longest word sequence that starts the words of every name of ms
CommonWords(ms) ==
    LET w == Words(ms[1])
        common(k) == \A i \in DOMAIN ms : IsWordPrefix(SubSeq(w, 1, k), Words(ms[i]))
        L == CHOOSE k \in 0..Len(w) :
                 /\ common(k)
                 /\ \A j \in (k + 1)..Len(w) : ~common(j)
    IN  SubSeq(w, 1, L)

\* The position of the word w among the children of the node at path p
ChildIndex(p, w) == CHOOSE k \in DOMAIN root[p].children : root[p].children[k] = w

\* The groups whose key is the text of a branching full name that is not a root
SelfNamedGroups ==
    {i \in DOMAIN grouped_names :
        LET p == Words(grouped_names[i].key)
        IN  /\ p \in DOMAIN root
            /\ is_branching_point(root[p])
            /\ root[p].is_full_name
            /\ ~is_root(root[p])}

\* C13: the key of every group is a whole-word prefix of each of its members
\* and the longest one they have in common; a group named by a branching full
\* name that is not a root lists that name first and then one name for each
\* remaining sub-branch, in the order the sub-branches are visited.
C13_LongestCommonPrefix ==
    Grouped =>
        /\ \A i \in DOMAIN grouped_names :
               LET g  == grouped_names[i].key
                   ms == grouped_names[i].val
               IN  /\ Len(ms) > 0
                   /\ \A j \in DOMAIN ms : IsWordPrefix(Words(g), Words(ms[j]))
                   /\ Words(g) = CommonWords(ms)
        /\ \A i \in SelfNamedGroups :
               LET g  == grouped_names[i].key
                   ms == grouped_names[i].val
                   p  == Words(g)
               IN  /\ ms[1] = g
                   /\ \A j \in 2..Len(ms) :
                          /\ ms[j] # g
                          /\ IsWordPrefix(p, Words(ms[j]))
                          /\ Len(Words(ms[j])) > Len(p)
                   /\ \A j, k \in 2..Len(ms) :
                          j < k => ChildIndex(p, Words(ms[j])[Len(p) + 1])
                                     < ChildIndex(p, Words(ms[k])[Len(p) + 1])

\* A branching full name that is not a root heads its group, followed by
\* the names of two of its sub-branches
C13_Witness ==
    /\ Grouped
    /\ \E i \in SelfNamedGroups :
           /\ Len(grouped_names[i].val) = 3
           /\ grouped_names[i].val[2] # grouped_names[i].val[3]

====
